---- MODULE Spec2Model ----
(***************************************************************************)
(* Model of sticker_telegram_bot/bot.py (class StickerBot).                *)
(*                                                                         *)
(* State: the pending_stickers dictionary, the selection handler that is   *)
(* suspended at one of its awaits (task), and the observable effects of    *)
(* the last handler step (out), and the updates that have arrived while    *)
(* that handler was suspended and wait to be handled (update_queue).  Four *)
(* history variables record what the chat has seen: the users whose        *)
(* selection buttons have been shown                                       *)
(* (shown), the stage the acting user was in before the last step          *)
(* (before), the update the last step has handled (event), and whether     *)
(* that update repeats the button press whose handler has just ended       *)
(* (pressed_again).  calc holds the arguments and results of a function    *)
(* that is evaluated on its own (token codec, name sanitizer, media        *)
(* dimensions); it is idle while the bot runs.                             *)
(*                                                                         *)
(* StickerBot.start builds the Application with its defaults               *)
(* (Application.builder().token(...).build(), no concurrent_updates) and   *)
(* registers blocking handlers: an update is handled to completion before  *)
(* the next one is taken.  The selection handler is still modelled await   *)
(* by await, because the outcome of each awaited call decides what it      *)
(* does next; no other handler runs while it is suspended.  Its local      *)
(* pending_data is a reference to the dictionary object of the entry, not  *)
(* a copy.                                                                 *)
(*                                                                         *)
(* Strings are sequences of one-character strings, so that replace, split  *)
(* and strip are computed as Python computes them.  An emoji is one        *)
(* element ("e1", "e2") of such a sequence.                                *)
(*                                                                         *)
(* The keys message_id, chat_id and user_message_id of a pending entry are *)
(* written by _store_pending_sticker and read nowhere; they are left out.  *)
(***************************************************************************)
EXTENDS Integers, Sequences, FiniteSets, TLC

VARIABLES pending_stickers, task, out, shown, before, event, pressed_again,
          calc, update_queue

vars ==
  <<pending_stickers, task, out, shown, before, event, pressed_again, calc,
    update_queue>>

\* Optional[T]: the empty set for None, {x} for a value x
Nothing == {}
Some(x) == {x}
The(opt) == CHOOSE x \in opt : TRUE

----------------------------------------------------------------------------
(* Configuration (config.py) and class constants *)

PACK_PREFIX == <<"p", "a", "c", "k", "_">>
CALLBACK_DATA_SEPARATOR == "|"

\* Config.STICKER_PACKS: the configured pack titles, in order
STICKER_PACKS == << <<"a">>, <<"b", " ", "1">> >>

\* Config.ALLOWED_CHAT_IDS: a configured allow-list (a direct chat, a group)
ALLOWED_CHAT_IDS == {11, -12}

\* context.bot.username
BotUsername == <<"b", "o", "t">>

\* the fallback of pending_data.get("emoji", ...)
DEFAULT_EMOJI == <<"e0">>

----------------------------------------------------------------------------
(* Inputs *)

Users == {1, 2}

\* the sender and the chat of an update: user 1 in its direct chat and in the
\* group, user 2 in the group and in its direct chat, which is not allowed,
\* and an update without a sender
Senders ==
  { <<{1}, 11>>, <<{1}, -12>>, <<{2}, -12>>, <<{2}, 13>>, <<{}, -12>> }
EmojiChars == {"e1", "e2"}
Letters == {"a", "b", "c", "k", "p"}
Digits == {"0", "1", "2", "3", "4", "5", "6", "7", "8", "9"}
Whitespace == {" "}

\* update.message.text of a text message
Texts ==
  { <<" ">>, <<"a", "b">>, <<"e1">>, <<" ", "e2", " ">>, <<"e1", "e2">> }

\* what a message (or the message a /sticker command replies to) holds: a
\* photo, an image sent as a document, another document, an animation with
\* its duration in seconds, or no media at all
Medias ==
  { [kind |-> "photo", file_id |-> "f1", duration |-> 0],
    [kind |-> "doc_image", file_id |-> "f3", duration |-> 0],
    [kind |-> "doc_other", file_id |-> "f4", duration |-> 0],
    [kind |-> "animation", file_id |-> "f2", duration |-> 5],
    [kind |-> "none", file_id |-> "", duration |-> 0] }

----------------------------------------------------------------------------
(* Python string functions *)

RECURSIVE Lstrip(_)
Lstrip(s) ==
  IF s # <<>> /\ Head(s) \in Whitespace THEN Lstrip(Tail(s)) ELSE s

RECURSIVE Rstrip(_)
Rstrip(s) ==
  IF s # <<>> /\ s[Len(s)] \in Whitespace
  THEN Rstrip(SubSeq(s, 1, Len(s) - 1)) ELSE s

\* str.strip()
Strip(s) == Rstrip(Lstrip(s))

HasPrefix(s, p) == Len(s) >= Len(p) /\ \A i \in 1..Len(p) : s[i] = p[i]

\* str.replace(old, ""): left to right, non-overlapping
RECURSIVE Replace(_, _)
Replace(s, old) ==
  IF s = <<>> THEN <<>>
  ELSE IF HasPrefix(s, old)
       THEN Replace(SubSeq(s, Len(old) + 1, Len(s)), old)
       ELSE <<Head(s)>> \o Replace(Tail(s), old)

\* the parts of s between the separators, after the part cur read so far
RECURSIVE SplitFrom(_, _, _)
SplitFrom(s, sep, cur) ==
  IF s = <<>> THEN <<cur>>
  ELSE IF Head(s) = sep THEN <<cur>> \o SplitFrom(Tail(s), sep, <<>>)
  ELSE SplitFrom(Tail(s), sep, Append(cur, Head(s)))

\* str.split(sep): the parts between the separators, at least one part
Split(s, sep) == SplitFrom(s, sep, <<>>)

DigitVal(c) ==
  CASE c = "0" -> 0 [] c = "1" -> 1 [] c = "2" -> 2 [] c = "3" -> 3
    [] c = "4" -> 4 [] c = "5" -> 5 [] c = "6" -> 6 [] c = "7" -> 7
    [] c = "8" -> 8 [] c = "9" -> 9

DigitChar(d) ==
  CASE d = 0 -> "0" [] d = 1 -> "1" [] d = 2 -> "2" [] d = 3 -> "3"
    [] d = 4 -> "4" [] d = 5 -> "5" [] d = 6 -> "6" [] d = 7 -> "7"
    [] d = 8 -> "8" [] d = 9 -> "9"

\* str(n) of a non-negative int, as the f-string of the callback data does
RECURSIVE IntToStr(_)
IntToStr(n) ==
  IF n < 10 THEN <<DigitChar(n)>>
  ELSE IntToStr(n \div 10) \o <<DigitChar(n % 10)>>

\* int(s) succeeds (decimal digits; sign and padding are not modelled)
IsIntStr(s) == s # <<>> /\ \A i \in 1..Len(s) : s[i] \in Digits

RECURSIVE StrToInt(_)
StrToInt(s) ==
  IF Len(s) = 1 THEN DigitVal(s[1])
  ELSE 10 * StrToInt(SubSeq(s, 1, Len(s) - 1)) + DigitVal(s[Len(s)])

----------------------------------------------------------------------------
(* make_sticker_set_name *)

\* re.sub(r"\s+", "_", title)
RECURSIVE SubWhitespace(_)
SubWhitespace(s) ==
  IF s = <<>> THEN <<>>
  ELSE IF Head(s) \in Whitespace
       THEN <<"_">> \o SubWhitespace(Lstrip(s))
       ELSE <<Head(s)>> \o SubWhitespace(Tail(s))

\* re.sub(r"[^A-Za-z0-9_]", "", s)
KeepWordChars(s) ==
  SelectSeq(s, LAMBDA c : c \in Letters \cup Digits \cup {"_"})

\* re.sub(r"_+", "_", s)
RECURSIVE CollapseUnderscores(_)
CollapseUnderscores(s) ==
  IF s = <<>> THEN <<>>
  ELSE IF Head(s) = "_" /\ Len(s) > 1 /\ s[2] = "_"
       THEN CollapseUnderscores(Tail(s))
       ELSE <<Head(s)>> \o CollapseUnderscores(Tail(s))

\* a substitution that removes one leading character that is not a letter
DropLeadingNonLetters_One(s) ==
  IF s # <<>> /\ Head(s) \notin Letters THEN Tail(s) ELSE s

\* re.sub(r"^([^A-Za-z]+)", "", s)
RECURSIVE DropLeadingNonLetters(_)
DropLeadingNonLetters(s) ==
  IF s # <<>> /\ Head(s) \notin Letters
  THEN DropLeadingNonLetters(Tail(s)) ELSE s

\* s.rstrip("_")
RECURSIVE RstripUnderscore(_)
RstripUnderscore(s) ==
  IF s # <<>> /\ s[Len(s)] = "_"
  THEN RstripUnderscore(SubSeq(s, 1, Len(s) - 1)) ELSE s

make_sticker_set_name(title, username) ==
  LET cleaned_title ==
        RstripUnderscore(DropLeadingNonLetters(CollapseUnderscores(
          KeepWordChars(SubWhitespace(title)))))
  IN cleaned_title \o <<"_", "b", "y", "_">> \o username

----------------------------------------------------------------------------
(* Chat allow-list *)

\* a check that lets every chat through
is_chat_allowed_Any(chat_id) == TRUE

\* Config.ALLOWED_CHAT_IDS is configured (not None)
is_chat_allowed(chat_id) == chat_id \in ALLOWED_CHAT_IDS

is_direct_message_allowed(chat_id) == is_chat_allowed(chat_id) /\ chat_id > 0

----------------------------------------------------------------------------
(* The pending_stickers dictionary *)

\* d[k] = v
DictSet(d, k, v) == [x \in DOMAIN d \cup {k} |-> IF x = k THEN v ELSE d[x]]

\* del d[k], for a key that is present
DictDel(d, k) == [x \in DOMAIN d \ {k} |-> d[x]]

\* a dictionary literal that loses the file id
NewPending_NoFile(file_id, media_type, duration) ==
  [file_id |-> Nothing, waiting_for_emoji |-> TRUE,
   media_type |-> media_type, duration |-> duration, emoji |-> Nothing]

\* the dictionary literal of _store_pending_sticker; file_id and duration are
\* optional values, the "duration" key is added only for a duration that is
\* not None, and the "emoji" key is absent
NewPending(file_id, media_type, duration) ==
  [file_id |-> file_id, waiting_for_emoji |-> TRUE,
   media_type |-> media_type, duration |-> duration, emoji |-> Nothing]

\* the emoji is stored but the entry keeps waiting for it
WithEmoji_StillWaiting(entry, emoji_text) ==
  [entry EXCEPT !.emoji = Some(emoji_text)]

\* the two assignments of handle_emoji_response
WithEmoji(entry, emoji_text) ==
  [entry EXCEPT !.emoji = Some(emoji_text), !.waiting_for_emoji = FALSE]

----------------------------------------------------------------------------
(* Observable effects of one handler step *)

\* str(e) of an exception: its text and, for the error of a clip that is
\* too large, the size the text quotes, in hundredths of a KB
Error(text) == [text |-> text, kb |-> 0]

NoError == Error("")

\* reply: the message posted or edited ("none" when nothing is shown);
\* err: the error text of an error report; keyboard: the callback data of
\* the buttons shown; fetch: the file id passed to get_file; calls: the pack
\* API calls issued; log: what the selection handler logs when it returns
\* early ("" otherwise)
Quiet ==
  [reply |-> "none", err |-> NoError, keyboard |-> <<>>, fetch |-> Nothing,
   calls |-> <<>>, log |-> ""]

Reply(text) == [Quiet EXCEPT !.reply = text]

----------------------------------------------------------------------------
(* Emoji step *)

\* a check that accepts any text that starts with an emoji or a letter
is_emoji_Loose(text) == Len(text) >= 1

\* emoji.is_emoji(text): the text is exactly one emoji
is_emoji(text) == Len(text) = 1 /\ text[1] \in EmojiChars

\* callback_data of one button
EncodeToken(pack, user_id) ==
  PACK_PREFIX \o pack \o <<CALLBACK_DATA_SEPARATOR>> \o IntToStr(user_id)

\* the inline keyboard: one button per configured pack
Keyboard(user_id) ==
  [i \in 1..Len(STICKER_PACKS) |-> EncodeToken(STICKER_PACKS[i], user_id)]

----------------------------------------------------------------------------
(* The suspended selection handler *)

\* pc: the await the handler is suspended at ("idle": no handler is
\* running); chat_id, data: the chat and the callback data of the query;
\* pending_data: the entry read from pending_stickers; sticker: the
\* arguments of the pack API calls
IdleTask ==
  [pc |-> "idle", user_id |-> Nothing, chat_id |-> 0, data |-> <<>>,
   selected_pack |-> <<>>, pending_data |-> Nothing, sticker |-> Nothing]

\* the Application takes the next update
Idle == task.pc = "idle"

\* the stage of the submission state machine a sender is in
Stage(from_user) ==
  IF from_user = Nothing \/ The(from_user) \notin DOMAIN pending_stickers
  THEN "NoSubmission"
  ELSE IF pending_stickers[The(from_user)].waiting_for_emoji
       THEN "AwaitingEmoji" ELSE "AwaitingCollection"

\* the update a handler was called with: effective_user, effective_chat.id,
\* the text or callback data, and the media message; result: how the call
\* the selection handler was awaiting has ended ("" for an update); size:
\* the length in bytes of the clip that was encoded (0 when none was)
Event(kind, sender, text, media) ==
  [kind |-> kind, from_user |-> sender[1], chat_id |-> sender[2],
   text |-> text, media |-> media, result |-> "", size |-> 0]

NoEvent == Event("none", <<Nothing, 0>>, <<>>, Nothing)

\* a call the suspended selection handler was awaiting has returned or
\* raised; the query it belongs to is that of the handler
Completion(kind, result, size) ==
  [Event(kind, <<task.user_id, task.chat_id>>, task.data, Nothing)
     EXCEPT !.result = result, !.size = size]

\* no function is being evaluated on its own
NoCalc == [pc |-> "none"]

\* self.pending_stickers = {} and no update handled yet
Started ==
  /\ pending_stickers = <<>>
  /\ task = IdleTask
  /\ out = Quiet
  /\ shown = {}
  /\ before = "NoSubmission"
  /\ event = NoEvent
  /\ pressed_again = FALSE
  /\ update_queue = <<>>

Init ==
  /\ Started
  /\ calc = NoCalc

\* a handler that returns without any effect
Drop ==
  /\ out' = Quiet
  /\ UNCHANGED <<pending_stickers, task>>

\* a handler that only replies
Respond(text) ==
  /\ out' = Reply(text)
  /\ UNCHANGED <<pending_stickers, task>>

\* the selection handler logs and returns, or ends in an exception that the
\* Application logs
Logged(message) ==
  /\ out' = [Quiet EXCEPT !.log = message]
  /\ UNCHANGED <<pending_stickers, task>>

----------------------------------------------------------------------------
(* Media messages *)

\* _process_image_message: <<file_id, error_message>>
process_image_message(message) ==
  IF message.kind \notin {"photo", "doc_image", "doc_other"}
  THEN <<Nothing, "no_image">>
  ELSE IF message.kind = "photo" THEN <<Some(message.file_id), "">>
  ELSE IF message.kind = "doc_other" THEN <<Nothing, "not_image">>
  ELSE <<Some(message.file_id), "">>

\* _process_animation_message: <<file_id, duration, error_message>>
process_animation_message(message) ==
  IF message.kind # "animation" THEN <<Nothing, Nothing, "no_animation">>
  ELSE <<Some(message.file_id), Some(message.duration), "">>

\* a store that updates the existing entry and keeps its emoji
store_pending_sticker_Merge(d, user_id, file_id, media_type, duration) ==
  DictSet(d, user_id,
          IF user_id \in DOMAIN d
          THEN [NewPending(file_id, media_type, duration)
                  EXCEPT !.emoji = d[user_id].emoji]
          ELSE NewPending(file_id, media_type, duration))

\* _store_pending_sticker: the dictionary after the call
store_pending_sticker(d, user_id, file_id, media_type, duration) ==
  DictSet(d, user_id, NewPending(file_id, media_type, duration))

\* _setup_pending_image_sticker and _setup_pending_animation_sticker
setup_pending_sticker(from_user, file_id, media_type, duration) ==
  IF file_id = Nothing THEN Drop
  ELSE IF from_user = Nothing THEN Respond("no_user")
  ELSE /\ pending_stickers' =
            store_pending_sticker(pending_stickers, The(from_user), file_id,
                                  media_type, duration)
       /\ task' = task
       /\ out' = Reply(IF media_type = "video" THEN "emoji_prompt_video"
                       ELSE "emoji_prompt_image")

\* handle_sticker_command; reply_to_message is None or the replied-to message
handle_sticker_command(from_user, chat_id, reply_to_message) ==
  IF ~is_chat_allowed(chat_id) THEN Drop
  ELSE IF reply_to_message = Nothing THEN Respond("need_reply")
  ELSE IF The(reply_to_message).kind = "animation"
  THEN LET r == process_animation_message(The(reply_to_message))
       IN IF r[3] # "" THEN Respond(r[3])
          ELSE setup_pending_sticker(from_user, r[1], "video", r[2])
  ELSE LET r == process_image_message(The(reply_to_message))
       IN IF r[2] # "" THEN Respond(r[2])
          ELSE setup_pending_sticker(from_user, r[1], "static", Nothing)

\* handle_direct_image (filters.PHOTO | filters.Document.IMAGE)
handle_direct_image(from_user, chat_id, message) ==
  IF ~is_direct_message_allowed(chat_id) THEN Drop
  ELSE LET r == process_image_message(message)
       IN IF r[2] # "" THEN Drop
          ELSE setup_pending_sticker(from_user, r[1], "static", Nothing)

\* handle_direct_animation (filters.ANIMATION)
handle_direct_animation(from_user, chat_id, message) ==
  IF ~is_direct_message_allowed(chat_id) THEN Drop
  ELSE LET r == process_animation_message(message)
       IN IF r[3] # "" THEN Drop
          ELSE setup_pending_sticker(from_user, r[1], "video", r[2])

----------------------------------------------------------------------------
(* /start and /help *)

start_command(chat_id) ==
  IF ~is_chat_allowed(chat_id) THEN Drop ELSE Respond("welcome")

----------------------------------------------------------------------------
(* /cancel *)

\* a cancel that leaves the entry in place
clear_pending_Keep(d, user_id) == d

\* del self.pending_stickers[user_id] of handle_cancel_command
clear_pending(d, user_id) == DictDel(d, user_id)

handle_cancel_command(from_user, chat_id) ==
  IF ~is_chat_allowed(chat_id) \/ from_user = Nothing THEN Drop
  ELSE LET user_id == The(from_user)
       IN IF user_id \in DOMAIN pending_stickers
          THEN /\ pending_stickers' = clear_pending(pending_stickers, user_id)
               /\ task' = task
               /\ out' = Reply("cancelled")
          ELSE Respond("nothing_to_cancel")

----------------------------------------------------------------------------
(* Text messages *)

handle_emoji_response(from_user, chat_id, text) ==
  IF ~is_chat_allowed(chat_id) \/ from_user = Nothing THEN Drop
  ELSE LET user_id == The(from_user)
           emoji_text == Strip(text)
       IN IF \/ user_id \notin DOMAIN pending_stickers
             \/ ~pending_stickers[user_id].waiting_for_emoji
          THEN Drop
          ELSE IF emoji_text = <<>> \/ ~is_emoji(emoji_text)
          THEN Respond("single_emoji_please")
          ELSE LET entry == WithEmoji(pending_stickers[user_id], emoji_text)
               IN /\ pending_stickers' =
                       DictSet(pending_stickers, user_id, entry)
                  /\ task' = task
                  /\ out' = [Reply("choose_pack")
                               EXCEPT !.keyboard = Keyboard(user_id)]

----------------------------------------------------------------------------
(* Selection buttons *)

\* tuple(query.data.replace(PACK_PREFIX, "").split(CALLBACK_DATA_SEPARATOR))
decode_callback(data) ==
  Split(Replace(data, PACK_PREFIX), CALLBACK_DATA_SEPARATOR)

\* a check that lets every user id through
token_user_matches_Any(callback_user_id, user_id) == TRUE

\* int(callback_user_id) != user_id, negated
token_user_matches(callback_user_id, user_id) ==
  StrToInt(callback_user_id) = user_id

\* a check that lets every pack name through
pack_is_configured_Any(selected_pack) == TRUE

\* selected_pack not in Config.STICKER_PACKS, negated
pack_is_configured(selected_pack) ==
  \E i \in 1..Len(STICKER_PACKS) : STICKER_PACKS[i] = selected_pack

\* handle_sticker_pack_selection up to its await of get_file.  A callback
\* data that does not unpack into two parts, or whose second part is not an
\* integer, raises ValueError outside the try block: the handler ends there.
handle_sticker_pack_selection(from_user, chat_id, data) ==
  LET callback_data == decode_callback(data)
  IN IF ~is_chat_allowed(chat_id) THEN Logged("chat_not_allowed")
     ELSE IF from_user = Nothing THEN Logged("no_user")
     ELSE IF \E i \in 1..Len(callback_data) : callback_data[i] = <<>>
     THEN Logged("incorrect_data")
     ELSE IF Len(callback_data) # 2 \/ ~IsIntStr(callback_data[2])
     THEN Logged("ValueError")
     ELSE IF ~token_user_matches(callback_data[2], The(from_user))
     THEN Logged("naughty")
     ELSE IF The(from_user) \notin DOMAIN pending_stickers
     THEN Logged("no_pending")
     ELSE IF ~pack_is_configured(callback_data[1])
     THEN Respond("invalid_pack")
     ELSE LET pending_data == pending_stickers[The(from_user)]
          IN /\ task' = [pc |-> "fetch", user_id |-> from_user,
                          chat_id |-> chat_id, data |-> data,
                          selected_pack |-> callback_data[1],
                          pending_data |-> Some(pending_data),
                          sticker |-> Nothing]
             /\ out' = [Quiet EXCEPT !.fetch = pending_data.file_id]
             /\ UNCHANGED pending_stickers

\* an except block that reports a fixed text without the error
selection_failed_NoCause(error) ==
  /\ task' = IdleTask
  /\ out' = Reply("error")
  /\ UNCHANGED pending_stickers

\* the except block of handle_sticker_pack_selection: the error is reported
\* by editing the message, and the handler ends
selection_failed(error) ==
  /\ task' = IdleTask
  /\ out' = [Reply("error") EXCEPT !.err = error]
  /\ UNCHANGED pending_stickers

\* a success path that leaves the entry in place
cleanup_pending_Keep(d, user_id) == d

\* del self.pending_stickers[user_id] after add_sticker_to_pack returned
cleanup_pending(d, user_id) == DictDel(d, user_id)

\* the end of the try block: the entry is deleted and success is reported;
\* del of an absent key raises KeyError, which the except block reports
selection_succeeded ==
  LET user_id == The(task.user_id)
  IN IF user_id \notin DOMAIN pending_stickers
     THEN selection_failed(Error("KeyError"))
     ELSE /\ pending_stickers' = cleanup_pending(pending_stickers, user_id)
          /\ task' = IdleTask
          /\ out' = Reply("success")

\* the size limit of process_video_for_sticker, in KB, and the bytes of a KB
MAX_VIDEO_KB == 256
BYTES_PER_KB == 1024

\* lengths of the WEBM file that write_videofile produces, in bytes
EncodedSizes ==
  { 1000, MAX_VIDEO_KB * BYTES_PER_KB - 1, MAX_VIDEO_KB * BYTES_PER_KB,
    MAX_VIDEO_KB * BYTES_PER_KB + 1, MAX_VIDEO_KB * BYTES_PER_KB + 6 }

\* f"{file_size_kb:.2f}" for file_size_kb = size / 1024: the hundredths of a
\* KB, rounded to the nearest, a tie to the even one
FormatKB(size) ==
  LET q == (size * 100) \div BYTES_PER_KB
      rest == (size * 100) % BYTES_PER_KB
  IN IF 2 * rest > BYTES_PER_KB \/ (2 * rest = BYTES_PER_KB /\ q % 2 = 1)
     THEN q + 1 ELSE q

\* a size check that lets every clip through
video_size_ok_Any(size) == TRUE

\* file_size_kb > 256, negated; len(webm_data) / 1024 is exact
video_size_ok(size) == size <= MAX_VIDEO_KB * BYTES_PER_KB

\* how process_image_for_sticker or process_video_for_sticker ends for media
\* that can or cannot be decoded and, for a video, is encoded to size bytes
ProcessResult(media_type, decoded, size) ==
  IF ~decoded THEN Error("decode_error")
  ELSE IF media_type = "video" /\ ~video_size_ok(size)
  THEN [text |-> "too_large", kb |-> FormatKB(size)]
  ELSE Error("ok")

\* every item is sent as a static sticker
sticker_format_of_Static(media_type) == "static"

\* sticker_format of the two branches of 'if media_type == "video"'
sticker_format_of(media_type) ==
  IF media_type = "video" THEN "video" ELSE "static"

\* get_file and download_as_bytearray have returned or raised; the media is
\* processed without suspension and create_new_sticker_set is awaited
fetch_done(fetch_ok, decoded, size) ==
  /\ task.pc = "fetch"
  /\ LET pending_data == The(task.pending_data)
         media_type == pending_data.media_type
         sticker_format == sticker_format_of(media_type)
         emoji == IF pending_data.emoji = Nothing THEN DEFAULT_EMOJI
                  ELSE The(pending_data.emoji)
         sticker ==
           [name |-> make_sticker_set_name(task.selected_pack, BotUsername),
            title |-> task.selected_pack,
            media |-> pending_data.file_id,
            emoji |-> emoji, format |-> sticker_format]
         result == ProcessResult(media_type, decoded, size)
     IN IF ~fetch_ok
        THEN selection_failed(Error("fetch_error"))
        ELSE IF result.text # "ok" THEN selection_failed(result)
        ELSE /\ task' = [task EXCEPT !.pc = "create",
                                     !.sticker = Some(sticker)]
             /\ out' = [Quiet EXCEPT !.calls =
                          <<[api |-> "create", sticker |-> sticker]>>]
             /\ UNCHANGED pending_stickers

\* create_new_sticker_set has returned or raised a TelegramError; on an
\* error add_sticker_to_set is awaited
create_done(result) ==
  /\ task.pc = "create"
  /\ IF result = "ok" THEN selection_succeeded
     ELSE /\ task' = [task EXCEPT !.pc = "append"]
          /\ out' = [Quiet EXCEPT !.calls =
                       <<[api |-> "append",
                          sticker |-> The(task.sticker)]>>]
          /\ UNCHANGED pending_stickers

\* add_sticker_to_set has returned or raised
append_done(result) ==
  /\ task.pc = "append"
  /\ IF result = "ok" THEN selection_succeeded
     ELSE selection_failed(Error("append_error"))

----------------------------------------------------------------------------
(* Events *)

\* the Application takes the updates in the order of their arrival: the
\* update that the step handles (event') is the one that has waited longest,
\* when updates have arrived while the selection handler was suspended.
\* Takes: the handler of the given kind of update is the one to be called.
Takes(kind) ==
  IF update_queue = <<>> THEN TRUE ELSE Head(update_queue).kind = kind

Dequeue ==
  IF update_queue = <<>> THEN update_queue' = <<>>
  ELSE /\ event' = Head(update_queue)
       /\ update_queue' = Tail(update_queue)

\* query.data of a button the bot has shown
ShownDatas ==
  UNION {{Keyboard(u)[i] : i \in 1..Len(STICKER_PACKS)} : u \in shown}

\* query.data of other buttons: a pack that is not configured, and data that
\* does not decode (the handler is only called for data that starts with
\* PACK_PREFIX)
OtherDatas ==
  {EncodeToken(<<"c">>, u) : u \in Users}
  \cup { PACK_PREFIX \o <<"a">>,
         PACK_PREFIX \o <<"|", "1">>,
         PACK_PREFIX \o <<"a", "|">>,
         PACK_PREFIX \o <<"a", "|", "b">>,
         PACK_PREFIX \o <<"a", "|", "1", "|", "2">> }

StickerCommand ==
  /\ Idle
  /\ Takes("sticker_command")
  /\ \E sender \in Senders,
        reply_to_message \in {Nothing} \cup {Some(m) : m \in Medias} :
       /\ handle_sticker_command(sender[1], sender[2], reply_to_message)
       /\ before' = Stage(sender[1])
       /\ event' = Event("sticker_command", sender, <<>>, reply_to_message)
  /\ pressed_again' = FALSE
  /\ Dequeue
  /\ UNCHANGED <<shown, calc>>

DirectImage ==
  /\ Idle
  /\ Takes("direct_image")
  /\ \E sender \in Senders,
        message \in {m \in Medias : m.kind \in {"photo", "doc_image"}} :
       /\ handle_direct_image(sender[1], sender[2], message)
       /\ before' = Stage(sender[1])
       /\ event' = Event("direct_image", sender, <<>>, Some(message))
  /\ pressed_again' = FALSE
  /\ Dequeue
  /\ UNCHANGED <<shown, calc>>

DirectAnimation ==
  /\ Idle
  /\ Takes("direct_animation")
  /\ \E sender \in Senders,
        message \in {m \in Medias : m.kind = "animation"} :
       /\ handle_direct_animation(sender[1], sender[2], message)
       /\ before' = Stage(sender[1])
       /\ event' = Event("direct_animation", sender, <<>>, Some(message))
  /\ pressed_again' = FALSE
  /\ Dequeue
  /\ UNCHANGED <<shown, calc>>

StartCommand ==
  /\ Idle
  /\ Takes("start")
  /\ \E sender \in Senders :
       /\ start_command(sender[2])
       /\ before' = Stage(sender[1])
       /\ event' = Event("start", sender, <<>>, Nothing)
  /\ pressed_again' = FALSE
  /\ Dequeue
  /\ UNCHANGED <<shown, calc>>

CancelCommand ==
  /\ Idle
  /\ Takes("cancel")
  /\ \E sender \in Senders :
       /\ handle_cancel_command(sender[1], sender[2])
       /\ before' = Stage(sender[1])
       /\ event' = Event("cancel", sender, <<>>, Nothing)
  /\ pressed_again' = FALSE
  /\ Dequeue
  /\ UNCHANGED <<shown, calc>>

TextMessage ==
  /\ Idle
  /\ Takes("text")
  /\ \E sender \in Senders, text \in Texts :
       /\ handle_emoji_response(sender[1], sender[2], text)
       /\ before' = Stage(sender[1])
       /\ event' = Event("text", sender, text, Nothing)
       /\ shown' = IF out'.keyboard # <<>> THEN shown \cup sender[1]
                   ELSE shown
  /\ pressed_again' = FALSE
  /\ Dequeue
  /\ UNCHANGED calc

\* the query is a press of the button whose handler has just ended: same
\* user, same chat, same callback data
SamePress(sender, data) ==
  /\ event.kind \in {"fetch_done", "create_done", "append_done"}
  /\ event.from_user = sender[1]
  /\ event.chat_id = sender[2]
  /\ event.text = data

SelectionEvent ==
  /\ Idle
  /\ Takes("selection")
  /\ \E sender \in Senders,
        data \in ShownDatas \cup OtherDatas :
       /\ handle_sticker_pack_selection(sender[1], sender[2], data)
       /\ before' = Stage(sender[1])
       /\ event' = Event("selection", sender, data, Nothing)
       /\ pressed_again' = SamePress(sender, data)
  /\ Dequeue
  /\ UNCHANGED <<shown, calc>>

FetchDone ==
  /\ \E fetch_ok \in BOOLEAN, decoded \in BOOLEAN, size \in EncodedSizes :
       /\ fetch_done(fetch_ok, decoded, size)
       /\ LET media_type == The(task.pending_data).media_type
          IN event' = Completion(
                        "fetch_done",
                        IF ~fetch_ok THEN "fetch_error"
                        ELSE ProcessResult(media_type, decoded, size).text,
                        IF fetch_ok /\ decoded /\ media_type = "video"
                        THEN size ELSE 0)
  /\ before' = Stage(task.user_id)
  /\ pressed_again' = FALSE
  /\ UNCHANGED <<shown, calc, update_queue>>

CreateDone ==
  /\ \E result \in {"ok", "exists", "telegram_error"} :
       /\ create_done(result)
       /\ event' = Completion("create_done", result, 0)
  /\ before' = Stage(task.user_id)
  /\ pressed_again' = FALSE
  /\ UNCHANGED <<shown, calc, update_queue>>

AppendDone ==
  /\ \E result \in {"ok", "error"} :
       /\ append_done(result)
       /\ event' = Completion("append_done", result, 0)
  /\ before' = Stage(task.user_id)
  /\ pressed_again' = FALSE
  /\ UNCHANGED <<shown, calc, update_queue>>

Next ==
  \/ StartCommand
  \/ StickerCommand
  \/ DirectImage
  \/ DirectAnimation
  \/ CancelCommand
  \/ TextMessage
  \/ SelectionEvent
  \/ FetchDone
  \/ CreateDone
  \/ AppendDone

Spec == Init /\ [][Next]_vars

----------------------------------------------------------------------------
(* Updates that arrive while the selection handler is suspended.  They wait
   in the update queue of the Application, which takes the next update when
   the handler has ended. *)

\* the senders of such updates: user 1 in its direct chat, user 2 in the
\* group
ArrivalSenders == { <<{1}, 11>>, <<{2}, -12>> }

\* the updates: /cancel, and /sticker in reply to a photo
Arrivals ==
  {Event("cancel", sender, <<>>, Nothing) : sender \in ArrivalSenders}
  \cup {Event("sticker_command", sender, <<>>,
               Some([kind |-> "photo", file_id |-> "f1", duration |-> 0])) :
          sender \in ArrivalSenders}

\* how many updates arrive while one handler is suspended
MaxWaiting == 1

UpdateArrives ==
  /\ ~Idle
  /\ Len(update_queue) < MaxWaiting
  /\ \E update \in Arrivals : update_queue' = Append(update_queue, update)
  /\ UNCHANGED <<pending_stickers, task, out, shown, before, event,
                 pressed_again, calc>>

QueuedNext ==
  \/ Next
  \/ UpdateArrives

QueuedSpec == Init /\ [][QueuedNext]_vars

----------------------------------------------------------------------------
(* The token codec on its own: a button data is built as handle_emoji_response
   builds it and decoded as handle_sticker_pack_selection decodes it *)

MaxUid == 12

\* pack names without the separator; some contain the text of PACK_PREFIX
CodecNames ==
  { <<"a">>, <<"b", " ", "1">>, <<"a", "_", "b">>, <<"p", "a", "c", "k">>,
    <<"p", "a", "c", "k", "_", "a">>,
    <<"a", "p", "a", "c", "k", "_", "b">>,
    <<"a", " ", "p", "a", "c", "k", "_">>,
    <<"p", "a", "c", "k", "_", "p", "a", "c", "k", "_", "c">> }

CodecInit ==
  /\ Started
  /\ calc \in [pc : {"name"}, name : CodecNames, uid : 1..MaxUid,
                token : {<<>>}, parts : {<<>>}]

\* callback_data=f"{PACK_PREFIX}{pack}{CALLBACK_DATA_SEPARATOR}{user_id}"
CodecEncode ==
  /\ calc.pc = "name"
  /\ calc' = [calc EXCEPT !.pc = "token",
                          !.token = EncodeToken(calc.name, calc.uid)]
  /\ UNCHANGED <<pending_stickers, task, out, shown, before, event,
                 pressed_again, update_queue>>

\* tuple(query.data.replace(PACK_PREFIX, "").split(CALLBACK_DATA_SEPARATOR))
CodecDecode ==
  /\ calc.pc = "token"
  /\ calc' = [calc EXCEPT !.pc = "parts",
                          !.parts = decode_callback(calc.token)]
  /\ UNCHANGED <<pending_stickers, task, out, shown, before, event,
                 pressed_again, update_queue>>

CodecNext ==
  \/ CodecEncode
  \/ CodecDecode

CodecSpec == CodecInit /\ [][CodecNext]_vars

----------------------------------------------------------------------------
(* make_sticker_set_name on its own: a title is sanitized, and the title
   portion of the result is sanitized again *)

MaxTitleLen == 4

\* a letter, a digit, the underscore, whitespace and punctuation
TitleAlphabet == {"a", "1", "_", " ", "!"}

Titles == UNION {[1..n -> TitleAlphabet] : n \in 0..MaxTitleLen}

\* context.bot.username
Handles == {BotUsername, <<"x", "_", "1">>}

\* the part of a sticker set name before "_by_" + username
TitlePortion(name, username) == SubSeq(name, 1, Len(name) - 4 - Len(username))

SanitizerInit ==
  /\ Started
  /\ calc \in [pc : {"title"}, title : Titles, username : Handles,
                name : {<<>>}, again : {<<>>}]

SanitizeTitle ==
  /\ calc.pc = "title"
  /\ calc' = [calc EXCEPT
                !.pc = "cleaned",
                !.name = make_sticker_set_name(calc.title, calc.username)]
  /\ UNCHANGED <<pending_stickers, task, out, shown, before, event,
                 pressed_again, update_queue>>

SanitizeAgain ==
  /\ calc.pc = "cleaned"
  /\ calc' = [calc EXCEPT
                !.pc = "recleaned",
                !.again = make_sticker_set_name(
                            TitlePortion(calc.name, calc.username),
                            calc.username)]
  /\ UNCHANGED <<pending_stickers, task, out, shown, before, event,
                 pressed_again, update_queue>>

SanitizerNext ==
  \/ SanitizeTitle
  \/ SanitizeAgain

SanitizerSpec == SanitizerInit /\ [][SanitizerNext]_vars

----------------------------------------------------------------------------
(* Media dimensions: process_image_for_sticker and process_video_for_sticker
   on their own *)

\* max_size of process_image_for_sticker
MAX_SIZE == 512

\* the longest side of a video sticker
VIDEO_SIDE == 512

\* widths and heights of the decoded media, in pixels
Dims == {1, 2, 49, 98, 256, 500, 512, 1000, 1024}

Max(a, b) == IF a >= b THEN a ELSE b

\* int.bit_length()
RECURSIVE BitLength(_)
BitLength(n) == IF n = 0 THEN 0 ELSE 1 + BitLength(n \div 2)

IsPowerOfTwo(n) == n >= 1 /\ n = 2 ^ (BitLength(n) - 1)

\* 2 ^ e modulo m
RECURSIVE PowMod2(_, _)
PowMod2(e, m) == IF e = 0 THEN 1 % m ELSE (2 * PowMod2(e - 1, m)) % m

\* int(x * (512 / larger)) for 1 <= x <= larger, as Python computes it with
\* IEEE 754 doubles: the quotient 512 / larger is rounded to 53 significant
\* bits, the product is rounded again, and int() truncates.  The two
\* roundings cannot carry the product across an integer unless
\* x * 512 / larger is itself an integer N; then the result is N - 1 exactly
\* when the quotient was rounded down (the remainder r of its 53-bit
\* division is below larger / 2) and the product lies more than half a unit
\* in the last place below N.
TruncScale512(x, larger) ==
  LET N == (x * 512) \div larger
      b == BitLength(larger)
      r == PowMod2(52 + b, larger)
      k == b + BitLength(N) - (IF IsPowerOfTwo(N) THEN 12 ELSE 11)
      below == IF k >= 0 THEN x * r > larger * (2 ^ k)
               ELSE x * r * (2 ^ (0 - k)) > larger
  IN IF \/ (x * 512) % larger # 0
        \/ IsPowerOfTwo(larger)
        \/ 2 * r > larger
        \/ ~below
     THEN N ELSE N - 1

\* process_image_for_sticker for image bytes that decode to width x height,
\* or do not decode: the canvas, the size of the resized image and the
\* position it is pasted at.  Image.resize raises ValueError for a size with
\* a side of 0.
process_image_for_sticker(decodable, width, height) ==
  LET larger == Max(width, height)
      new_size == <<TruncScale512(width, larger),
                    TruncScale512(height, larger)>>
      x == (MAX_SIZE - new_size[1]) \div 2
      y == (MAX_SIZE - new_size[2]) \div 2
  IN IF ~decodable
     THEN [ok |-> FALSE, error |-> "decode_error"]
     ELSE IF new_size[1] < 1 \/ new_size[2] < 1
     THEN [ok |-> FALSE, error |-> "resize_error"]
     ELSE [ok |-> TRUE, canvas |-> <<MAX_SIZE, MAX_SIZE>>,
           new_size |-> new_size, offset |-> <<x, y>>]

\* n if n % 2 == 0 else n - 1
EvenDown(n) == IF n % 2 = 0 THEN n ELSE n - 1

\* the size process_video_for_sticker resizes the clip to
video_target_size(width, height) ==
  LET new_width == IF width > height THEN VIDEO_SIDE
                   ELSE TruncScale512(width, height)
      new_height == IF width > height THEN TruncScale512(height, width)
                    ELSE VIDEO_SIDE
  IN <<EvenDown(new_width), EvenDown(new_height)>>

ImageInit ==
  /\ Started
  /\ calc \in [pc : {"image"}, decodable : BOOLEAN, width : Dims,
                height : Dims, result : {[ok |-> FALSE, error |-> ""]}]

\* Image.open raises
ImageOpenFails ==
  /\ calc.pc = "image"
  /\ ~calc.decodable
  /\ calc' = [calc EXCEPT
                !.pc = "normalized",
                !.result = process_image_for_sticker(FALSE, calc.width,
                                                     calc.height)]
  /\ UNCHANGED <<pending_stickers, task, out, shown, before, event,
                 pressed_again, update_queue>>

ImageNormalize ==
  /\ calc.pc = "image"
  /\ calc.decodable
  /\ calc' = [calc EXCEPT
                !.pc = "normalized",
                !.result = process_image_for_sticker(TRUE, calc.width,
                                                     calc.height)]
  /\ UNCHANGED <<pending_stickers, task, out, shown, before, event,
                 pressed_again, update_queue>>

ImageNext ==
  \/ ImageOpenFails
  \/ ImageNormalize

ImageSpec == ImageInit /\ [][ImageNext]_vars

VideoInit ==
  /\ Started
  /\ calc \in [pc : {"clip"}, width : Dims, height : Dims,
                target : {<<0, 0>>}]

VideoResize ==
  /\ calc.pc = "clip"
  /\ calc' = [calc EXCEPT
                !.pc = "resized",
                !.target = video_target_size(calc.width, calc.height)]
  /\ UNCHANGED <<pending_stickers, task, out, shown, before, event,
                 pressed_again, update_queue>>

VideoNext == VideoResize

VideoSpec == VideoInit /\ [][VideoNext]_vars

----------------------------------------------------------------------------
(* process_video_for_sticker on its own, statement by statement: the
   temporary files, the clip, the speed-up, the resize, the encoding, the
   size check and the finally block.  A time in seconds that a division
   produces is a fraction <<numerator, denominator>>. *)

\* animation.duration of the message, in whole seconds
Durations == {0, 2, 3, 4, 5}

\* lengths in seconds of the clip that the bytes decode to
ClipLengths == {2, 3, 5}

\* heights of the decoded clip, in pixels; its width is one of Dims
ClipHeights == {1, 49, 500}

\* lengths in bytes of the WEBM file, around the limit
WebmSizes ==
  { 1000, MAX_VIDEO_KB * BYTES_PER_KB, MAX_VIDEO_KB * BYTES_PER_KB + 1 }

\* the duration above which the clip is sped up, and the duration it is
\* sped up to, in seconds
SPEEDUP_ABOVE == 3
SPEEDUP_TO == 3

\* pending_data.get("duration", 0)
declared_duration(entry_duration) ==
  IF entry_duration = Nothing THEN 0 ELSE The(entry_duration)

\* a test that also takes a clip of exactly three seconds
needs_speedup_AtLeast(duration) == duration >= SPEEDUP_ABOVE

\* duration > 3.0
needs_speedup(duration) == duration > SPEEDUP_ABOVE

\* speed_multiplier = duration / 3.0
speed_multiplier(duration) == <<duration, SPEEDUP_TO>>

\* vfx.speedx(clip, factor): the duration of the new clip is
\* clip.duration / factor
speedx(length, factor) == <<length[1] * factor[2], length[2] * factor[1]>>

\* the frame size of the file that write_videofile encodes: the size of the
\* clip it is called on
encoded_frame_size(clip_size) == clip_size

TranscoderInit ==
  /\ Started
  /\ calc \in [pc : {"call"}, entry_duration : {Nothing} \cup
                                               {Some(d) : d \in Durations},
                length : ClipLengths, width : Dims, height : ClipHeights,
                duration : {0}, temp_input : {FALSE}, temp_output : {FALSE},
                clip : {"none"}, speed : {Nothing}, clip_duration : {<<0, 1>>},
                clip_size : {<<0, 0>>}, webm_size : {0}, webm_frame : {<<0, 0>>},
                result : {""}]

\* the call of handle_sticker_pack_selection and the two temporary files
TranscoderCreateFiles ==
  /\ calc.pc = "call"
  /\ calc' = [calc EXCEPT !.pc = "files",
                          !.duration = declared_duration(calc.entry_duration),
                          !.temp_input = TRUE,
                          !.temp_output = TRUE]
  /\ UNCHANGED <<pending_stickers, task, out, shown, before, event,
                 pressed_again, update_queue>>

\* clip = VideoFileClip(temp_input) and width, height = clip.size
TranscoderLoad ==
  /\ calc.pc = "files"
  /\ \E decodable \in BOOLEAN :
       calc' = IF decodable
               THEN [calc EXCEPT !.pc = "loaded",
                                 !.clip = "open",
                                 !.clip_duration = <<calc.length, 1>>,
                                 !.clip_size = <<calc.width, calc.height>>]
               ELSE [calc EXCEPT !.pc = "finally",
                                 !.result = "decode_error"]
  /\ UNCHANGED <<pending_stickers, task, out, shown, before, event,
                 pressed_again, update_queue>>

\* if duration > 3.0: clip = clip.fx(vfx.speedx, speed_multiplier)
TranscoderSpeedUp ==
  /\ calc.pc = "loaded"
  /\ calc' = IF needs_speedup(calc.duration)
             THEN [calc EXCEPT
                     !.pc = "timed",
                     !.speed = Some(speed_multiplier(calc.duration)),
                     !.clip_duration =
                       speedx(calc.clip_duration,
                              speed_multiplier(calc.duration))]
             ELSE [calc EXCEPT !.pc = "timed"]
  /\ UNCHANGED <<pending_stickers, task, out, shown, before, event,
                 pressed_again, update_queue>>

\* clip = clip.resize((new_width, new_height)); a size with a side of 0
\* makes the resize raise
TranscoderResize ==
  /\ calc.pc = "timed"
  /\ LET target == video_target_size(calc.width, calc.height)
     IN calc' = IF target[1] < 1 \/ target[2] < 1
                THEN [calc EXCEPT !.pc = "finally",
                                  !.result = "resize_error"]
                ELSE [calc EXCEPT !.pc = "resized", !.clip_size = target]
  /\ UNCHANGED <<pending_stickers, task, out, shown, before, event,
                 pressed_again, update_queue>>

\* clip.write_videofile(temp_output, ...) and the read of the file
TranscoderEncode ==
  /\ calc.pc = "resized"
  /\ \E encode_ok \in BOOLEAN, size \in WebmSizes :
       calc' = IF encode_ok
               THEN [calc EXCEPT
                       !.pc = "encoded",
                       !.webm_size = size,
                       !.webm_frame = encoded_frame_size(calc.clip_size)]
               ELSE [calc EXCEPT !.pc = "finally",
                                 !.result = "encode_error"]
  /\ UNCHANGED <<pending_stickers, task, out, shown, before, event,
                 pressed_again, update_queue>>

\* if file_size_kb > 256: raise ValueError, else return webm_data
TranscoderMeasure ==
  /\ calc.pc = "encoded"
  /\ calc' = [calc EXCEPT
                !.pc = "finally",
                !.result = IF video_size_ok(calc.webm_size) THEN "ok"
                           ELSE "too_large"]
  /\ UNCHANGED <<pending_stickers, task, out, shown, before, event,
                 pressed_again, update_queue>>

\* the finally block: clip.close() when a clip was loaded, then the two
\* os.unlink calls; an exception of clip.close() leaves the block
TranscoderRelease ==
  /\ calc.pc = "finally"
  /\ \E close_ok \in BOOLEAN :
       LET closed == calc.clip = "none" \/ close_ok
       IN calc' = [calc EXCEPT
                     !.pc = "done",
                     !.clip = IF calc.clip = "open" /\ close_ok THEN "closed"
                              ELSE calc.clip,
                     !.temp_input = IF closed THEN FALSE ELSE @,
                     !.temp_output = IF closed THEN FALSE ELSE @,
                     !.result = IF closed THEN @ ELSE "close_error"]
  /\ UNCHANGED <<pending_stickers, task, out, shown, before, event,
                 pressed_again, update_queue>>

TranscoderNext ==
  \/ TranscoderCreateFiles
  \/ TranscoderLoad
  \/ TranscoderSpeedUp
  \/ TranscoderResize
  \/ TranscoderEncode
  \/ TranscoderMeasure
  \/ TranscoderRelease

TranscoderSpec == TranscoderInit /\ [][TranscoderNext]_vars

----------------------------------------------------------------------------
(* Claims *)

InCatalog(pack) == \E i \in 1..Len(STICKER_PACKS) : STICKER_PACKS[i] = pack

\* a message that holds an image or an animation
ValidMedias == {m \in Medias : m.kind \in {"photo", "doc_image", "animation"}}

\* a text that is not exactly one emoji once trimmed
NotOneEmoji(text) ==
  LET trimmed == Strip(text)
  IN Len(trimmed) # 1 \/ trimmed[1] \notin EmojiChars

\* the button data is forged or malformed for the user who pressed it: after
\* the marker it does not split into two non-empty parts, its second part is
\* not an integer, or that integer is not the id of the presser
BadToken(data, user_id) ==
  LET parts == Split(SubSeq(data, Len(PACK_PREFIX) + 1, Len(data)),
                     CALLBACK_DATA_SEPARATOR)
  IN \/ Len(parts) # 2
     \/ parts[1] = <<>>
     \/ parts[2] = <<>>
     \/ ~IsIntStr(parts[2])
     \/ StrToInt(parts[2]) # user_id

\* the buttons of the configured packs that were made for user_id
OwnDatas(user_id) ==
  {EncodeToken(STICKER_PACKS[i], user_id) : i \in 1..Len(STICKER_PACKS)}

\* the step handles an update of the given kind that a user has sent
FromUser(kind) ==
  /\ event'.kind = kind
  /\ event'.from_user # Nothing

\* the step handles an update of the given kind that a user has sent in an
\* allowed chat
FromAllowedUser(kind) ==
  /\ FromUser(kind)
  /\ event'.chat_id \in ALLOWED_CHAT_IDS

\* the step handles a media message that the bot accepts: /sticker in reply
\* to an image or an animation in an allowed chat, or an image or an animation
\* sent in an allowed direct chat
AcceptedMedia ==
  /\ \/ FromAllowedUser("sticker_command")
     \/ FromAllowedUser("direct_image") /\ event'.chat_id > 0
     \/ FromAllowedUser("direct_animation") /\ event'.chat_id > 0
  /\ event'.media # Nothing
  /\ The(event'.media) \in ValidMedias

\* the step starts no fetch, issues no pack API call and shows nothing
NoGatewayNoReply ==
  /\ out'.reply = "none"
  /\ out'.fetch = Nothing
  /\ out'.calls = <<>>
  /\ task' = IdleTask

\* no entry of a user other than u is created, changed or deleted
OthersUnchanged(u) ==
  \A v \in Users \ {u} :
    /\ v \in DOMAIN pending_stickers' <=> v \in DOMAIN pending_stickers
    /\ v \in DOMAIN pending_stickers
         => pending_stickers'[v] = pending_stickers[v]

\* C1: in every reachable state the pending map holds at most one entry per
\* user id (its keys are user ids, each mapped to one entry), and every
\* entry has a media reference (file_id is not None).
C1_OneEntryWithMedia ==
  /\ DOMAIN pending_stickers \subseteq Users
  /\ \A u \in DOMAIN pending_stickers :
       /\ pending_stickers[u].file_id # Nothing
       /\ Cardinality({pending_stickers[v] : v \in {u}}) = 1

\* both users have an entry, one of them after its emoji step
C1_Witness ==
  /\ DOMAIN pending_stickers = Users
  /\ \E u \in Users : ~pending_stickers[u].waiting_for_emoji
  /\ \E u \in Users : pending_stickers[u].waiting_for_emoji

\* C2: a valid media event (image or animation) of user u that is accepted,
\* in whatever stage u was, leaves u with an entry that waits for its emoji,
\* refers to the new media and carries no emoji.
C2_MediaResetsToAwaitingEmoji ==
  [][AcceptedMedia
       => LET u == The(event'.from_user)
          IN /\ u \in DOMAIN pending_stickers'
             /\ pending_stickers'[u].waiting_for_emoji
             /\ pending_stickers'[u].file_id = Some(The(event'.media).file_id)
             /\ pending_stickers'[u].emoji = Nothing
             /\ OthersUnchanged(u)]_vars

\* a media event has replaced an entry that already had its emoji
C2_Witness ==
  /\ event.kind \in {"sticker_command", "direct_image", "direct_animation"}
  /\ out.reply \in {"emoji_prompt_image", "emoji_prompt_video"}
  /\ before = "AwaitingCollection"
  /\ pending_stickers[The(event.from_user)].waiting_for_emoji
  /\ pending_stickers[The(event.from_user)].emoji = Nothing

\* C3: the selection handler fetches media and calls the pack API only for a
\* pending entry that is in AwaitingCollection and a pack of the catalog; a
\* selection event in AwaitingEmoji starts no fetch.
C3_GatewayOnlyInAwaitingCollection ==
  task.pc # "idle"
    => /\ ~The(task.pending_data).waiting_for_emoji
       /\ InCatalog(task.selected_pack)

\* a selection event of a user in AwaitingEmoji has started the fetch
C3_FailingCase ==
  /\ event.kind = "selection"
  /\ before = "AwaitingEmoji"
  /\ task.pc = "fetch"
  /\ out.fetch # Nothing

\* C4: whenever the selection handler reports a failure of the fetch, the
\* processing or the pack API, the entry of its user is removed.
C4_FailureClearsEntry ==
  [][(task.pc # "idle" /\ out'.reply = "error")
       => The(task.user_id) \notin DOMAIN pending_stickers']_vars

\* the selection handler has reported a failure and the entry of its user is
\* still there
C4_FailingCase ==
  /\ event.kind \in {"fetch_done", "create_done", "append_done"}
  /\ out.reply = "error"
  /\ The(event.from_user) \in DOMAIN pending_stickers

\* C5: when create or append succeeds for a selection event of user u, the
\* entry of u is removed; a selection event of u with a button of its own,
\* while u has no entry, finds no entry and starts nothing.
C5_SuccessClearsEntry ==
  [][/\ (task.pc \in {"create", "append"} /\ out'.reply = "success")
          => The(task.user_id) \notin DOMAIN pending_stickers'
     /\ (/\ FromAllowedUser("selection")
         /\ The(event'.from_user) \notin DOMAIN pending_stickers
         /\ event'.text \in OwnDatas(The(event'.from_user)))
          => /\ out'.log = "no_pending"
             /\ NoGatewayNoReply
             /\ pending_stickers' = pending_stickers]_vars

\* a selection of an entry in AwaitingCollection has succeeded
C5_Witness ==
  /\ event.kind \in {"create_done", "append_done"}
  /\ out.reply = "success"
  /\ before = "AwaitingCollection"
  /\ task = IdleTask

\* C6: a text of user u in AwaitingEmoji that is not exactly one emoji
\* (empty once trimmed, or several characters) leaves every entry unchanged
\* and is answered with the correction message.
C6_InvalidEmojiKeepsEntry ==
  [][(/\ FromAllowedUser("text")
      /\ Stage(event'.from_user) = "AwaitingEmoji"
      /\ NotOneEmoji(event'.text))
       => /\ pending_stickers' = pending_stickers
          /\ out'.reply = "single_emoji_please"
          /\ out'.keyboard = <<>>]_vars

\* the correction message has been sent to a user in AwaitingEmoji, who
\* still is in AwaitingEmoji
C6_Witness ==
  /\ event.kind = "text"
  /\ out.reply = "single_emoji_please"
  /\ before = "AwaitingEmoji"
  /\ Stage(event.from_user) = "AwaitingEmoji"

\* C7: a text of user u in AwaitingEmoji that is one emoji stores the emoji,
\* moves the entry to AwaitingCollection with the same media, and shows one
\* button per configured pack, in the configured order, each with the data
\* marker + pack + separator + id of u.
C7_EmojiAdvances ==
  [][(/\ FromAllowedUser("text")
      /\ Stage(event'.from_user) = "AwaitingEmoji"
      /\ ~NotOneEmoji(event'.text))
       => LET u == The(event'.from_user)
          IN /\ u \in DOMAIN pending_stickers'
             /\ pending_stickers'[u].emoji = Some(Strip(event'.text))
             /\ ~pending_stickers'[u].waiting_for_emoji
             /\ pending_stickers'[u].file_id = pending_stickers[u].file_id
             /\ pending_stickers'[u].media_type = pending_stickers[u].media_type
             /\ pending_stickers'[u].duration = pending_stickers[u].duration
             /\ OthersUnchanged(u)
             /\ out'.reply = "choose_pack"
             /\ Len(out'.keyboard) = Len(STICKER_PACKS)
             /\ \A i \in 1..Len(STICKER_PACKS) :
                  out'.keyboard[i] =
                    <<"p", "a", "c", "k", "_">> \o STICKER_PACKS[i]
                      \o <<"|", DigitChar(u)>>]_vars

\* the buttons have been shown to a user who was in AwaitingEmoji
C7_Witness ==
  /\ event.kind = "text"
  /\ out.reply = "choose_pack"
  /\ before = "AwaitingEmoji"
  /\ Len(out.keyboard) = Len(STICKER_PACKS)
  /\ pending_stickers[The(event.from_user)].emoji = Some(Strip(event.text))

\* C8: /cancel of user u in AwaitingEmoji or AwaitingCollection removes the
\* entry of u; a text or a selection event of u while u has no entry changes
\* nothing and starts no fetch and no pack API call.
C8_CancelClears ==
  [][/\ (/\ FromAllowedUser("cancel")
         /\ The(event'.from_user) \in DOMAIN pending_stickers)
          => /\ The(event'.from_user) \notin DOMAIN pending_stickers'
             /\ OthersUnchanged(The(event'.from_user))
             /\ out'.reply = "cancelled"
     /\ (/\ FromUser("text") \/ FromUser("selection")
         /\ The(event'.from_user) \notin DOMAIN pending_stickers)
          => /\ pending_stickers' = pending_stickers
             /\ task' = IdleTask
             /\ out'.fetch = Nothing
             /\ out'.calls = <<>>]_vars

\* a user in AwaitingCollection has cancelled
C8_Witness ==
  /\ event.kind = "cancel"
  /\ out.reply = "cancelled"
  /\ before = "AwaitingCollection"
  /\ The(event.from_user) \notin DOMAIN pending_stickers

\* C9: an event that does not match the stage of its user (a text in
\* NoSubmission or AwaitingCollection, /cancel in NoSubmission, a selection
\* event in NoSubmission or AwaitingEmoji) is ignored: no entry changes,
\* nothing is shown, and no fetch or pack API call starts.
C9_UnexpectedEventIgnored ==
  [][(\/ /\ FromAllowedUser("text")
         /\ Stage(event'.from_user) \in {"NoSubmission", "AwaitingCollection"}
      \/ /\ FromAllowedUser("cancel")
         /\ Stage(event'.from_user) = "NoSubmission"
      \/ /\ FromAllowedUser("selection")
         /\ Stage(event'.from_user) \in {"NoSubmission", "AwaitingEmoji"}
         /\ event'.text \in OwnDatas(The(event'.from_user)))
       => /\ pending_stickers' = pending_stickers
          /\ NoGatewayNoReply]_vars

\* /cancel of a user in NoSubmission has been answered
C9_FailingCase ==
  /\ event.kind = "cancel"
  /\ before = "NoSubmission"
  /\ out.reply = "nothing_to_cancel"

\* C10: a selection event whose button data is forged or malformed for the
\* presser changes no entry, shows nothing, and starts no fetch and no pack
\* API call.
C10_BadTokenDropped ==
  [][(/\ FromUser("selection")
      /\ BadToken(event'.text, The(event'.from_user)))
       => /\ pending_stickers' = pending_stickers
          /\ NoGatewayNoReply]_vars

\* a user with an entry in AwaitingCollection has pressed the button of the
\* other user, who has an entry too, and the handler has returned
C10_Witness ==
  /\ event.kind = "selection"
  /\ out.log = "naughty"
  /\ before = "AwaitingCollection"
  /\ DOMAIN pending_stickers = Users
  /\ task = IdleTask

\* the pack name of a well-formed button data: the part between the marker
\* and the separator
TokenPack(data) ==
  Split(SubSeq(data, Len(PACK_PREFIX) + 1, Len(data)),
        CALLBACK_DATA_SEPARATOR)[1]

\* C11: a selection event of user u, who has a pending entry, with a
\* well-formed button data of u whose pack is not configured is answered with
\* the invalid-pack message, changes no entry and starts no fetch and no pack
\* API call.
C11_UnknownPackRejected ==
  [][(/\ FromAllowedUser("selection")
      /\ The(event'.from_user) \in DOMAIN pending_stickers
      /\ ~BadToken(event'.text, The(event'.from_user))
      /\ ~InCatalog(TokenPack(event'.text)))
       => /\ out'.reply = "invalid_pack"
          /\ pending_stickers' = pending_stickers
          /\ out'.fetch = Nothing
          /\ out'.calls = <<>>
          /\ task' = IdleTask]_vars

\* a user in AwaitingCollection has pressed a button of its own for a pack
\* that is not configured, and has been told so
C11_Witness ==
  /\ event.kind = "selection"
  /\ out.reply = "invalid_pack"
  /\ before = "AwaitingCollection"
  /\ Stage(event.from_user) = "AwaitingCollection"
  /\ ~InCatalog(TokenPack(event.text))

\* the text of the marker occurs in the name
HasMarker(name) ==
  \E i \in 1..Len(name) :
    /\ i + 4 <= Len(name)
    /\ SubSeq(name, i, i + 4) = <<"p", "a", "c", "k", "_">>

\* C12: for every pack name without the separator and every user id,
\* decoding the button data that the emoji step builds from them gives back
\* two parts, the name and the decimal text of the user id, also when the
\* name contains the text of the marker.
C12_CodecRoundTrip ==
  calc.pc = "parts"
    => /\ Len(calc.parts) = 2
       /\ calc.parts[1] = calc.name
       /\ IsIntStr(calc.parts[2])
       /\ StrToInt(calc.parts[2]) = calc.uid

\* a name that contains the marker has come back without it
C12_FailingCase ==
  /\ calc.pc = "parts"
  /\ HasMarker(calc.name)
  /\ Len(calc.parts) = 2
  /\ calc.parts[1] # calc.name
  /\ StrToInt(calc.parts[2]) = calc.uid

\* C13: when a user presses the same button twice in a row, the second press
\* being handled as soon as the handler of the first has ended, the second
\* press finds no pending entry and starts no fetch and no pack API call, so
\* that the two presses make one submission.
C13_SecondPressFindsNoEntry ==
  pressed_again
    => /\ out.log = "no_pending"
       /\ out.fetch = Nothing
       /\ out.calls = <<>>
       /\ task = IdleTask

\* the second press of the same button has found the entry and has started
\* the fetch again
C13_FailingCase ==
  /\ pressed_again
  /\ event.kind = "selection"
  /\ The(event.from_user) \in DOMAIN pending_stickers
  /\ task.pc = "fetch"
  /\ out.fetch # Nothing

\* the item of a pack API call carries the media and the emoji of the entry
\* of user u and the pack of the button that u has pressed
ItemOfUser(item, u, data) ==
  /\ u \in DOMAIN pending_stickers'
  /\ item.media = pending_stickers'[u].file_id
  /\ pending_stickers'[u].emoji # Nothing
  /\ item.emoji = The(pending_stickers'[u].emoji)
  /\ ~BadToken(data, u)
  /\ item.title = TokenPack(data)

\* C14: however the events of the two users are ordered, every item passed
\* to a pack API call for the selection of user u carries the media and the
\* emoji stored in the entry of u and the pack named in the button u has
\* pressed, and a step that handles an event of u leaves the entries of the
\* other users as they are.
C14_NoCrossAssignment ==
  [][/\ \A i \in 1..Len(out'.calls) :
          ItemOfUser(out'.calls[i].sticker, The(task'.user_id), task'.data)
     /\ event'.from_user # Nothing
          => OthersUnchanged(The(event'.from_user))]_vars

\* a sticker is being created with the default emoji for a user whose entry
\* stores no emoji, while the other user has an entry too
C14_FailingCase ==
  /\ task.pc = "create"
  /\ Len(out.calls) = 1
  /\ DOMAIN pending_stickers = Users
  /\ pending_stickers[The(task.user_id)].emoji = Nothing
  /\ out.calls[1].sticker.emoji = DEFAULT_EMOJI

\* the step ends a call of the selection handler with a failure of the
\* Gateway: the fetch, the processing, or the append after a failed create
GatewayFailure ==
  \/ /\ event'.kind = "fetch_done"
     /\ event'.result \in {"fetch_error", "decode_error", "too_large"}
  \/ /\ event'.kind = "append_done"
     /\ event'.result = "error"

\* C15: every failure of the Gateway during a selection (fetch error, decode
\* error, output too large, failure of the append that follows a failed
\* create) ends the handler with an error message that carries the text of
\* the error that caused it; after a failed create and a failed append, that
\* is the error of the append.
C15_FailureReportedWithCause ==
  [][GatewayFailure
       => /\ out'.reply = "error"
          /\ out'.err.text = IF event'.kind = "append_done"
                             THEN "append_error" ELSE event'.result
          /\ task' = IdleTask]_vars

\* create and append have both failed and the error of the append has been
\* reported
C15_Witness ==
  /\ event.kind = "append_done"
  /\ event.result = "error"
  /\ out.reply = "error"
  /\ out.err.text = "append_error"
  /\ task = IdleTask

\* C16: for every title over letters, digits, underscore, whitespace and
\* punctuation and every handle, the sticker set name is a non-empty title
\* portion that starts with a letter and holds only letters, digits and
\* underscores, followed by "_by_" and the handle.
C16_NameMatchesPattern ==
  calc.pc = "cleaned"
    => LET c == TitlePortion(calc.name, calc.username)
       IN /\ calc.name = c \o <<"_", "b", "y", "_">> \o calc.username
          /\ c # <<>>
          /\ c[1] \in Letters
          /\ \A i \in 1..Len(c) : c[i] \in Letters \cup Digits \cup {"_"}

\* a title without a letter has given a name with an empty title portion
C16_FailingCase ==
  /\ calc.pc = "cleaned"
  /\ calc.title = <<"1", " ", "!">>
  /\ calc.name = <<"_", "b", "y", "_">> \o calc.username

\* C17: sanitizing the title portion of a sticker set name again, with the
\* same handle, gives the same sticker set name.
C17_SanitizerIdempotent ==
  calc.pc = "recleaned" => calc.again = calc.name

\* a title that the sanitizer has changed in every one of its steps has been
\* sanitized twice
C17_Witness ==
  /\ calc.pc = "recleaned"
  /\ calc.title = <<"1", " ", "a", "!">>
  /\ TitlePortion(calc.name, calc.username) = <<"a">>
  /\ calc.again = calc.name

\* C18: for every image that decodes, of width w >= 1 and height h >= 1,
\* process_image_for_sticker succeeds with a canvas of 512 x 512 and the
\* resized image of size (floor(w * r), floor(h * r)), r = 512 / max(w, h),
\* pasted at ((512 - newW) div 2, (512 - newH) div 2) inside the canvas; a
\* 1024 x 256 image becomes 512 x 128 with 192 pixels above and below.
C18_ImageOnCanvas ==
  (calc.pc = "normalized" /\ calc.decodable)
    => LET w == calc.width
           h == calc.height
           newW == (w * 512) \div Max(w, h)
           newH == (h * 512) \div Max(w, h)
           res == calc.result
       IN /\ res.ok
          /\ res.canvas = <<512, 512>>
          /\ res.new_size = <<newW, newH>>
          /\ res.offset = <<(512 - newW) \div 2, (512 - newH) \div 2>>
          /\ res.offset[1] >= 0 /\ res.offset[1] + newW <= 512
          /\ res.offset[2] >= 0 /\ res.offset[2] + newH <= 512
          /\ (w = 1024 /\ h = 256)
               => res.new_size = <<512, 128>> /\ res.offset = <<0, 192>>

\* an image of 1000 x 1 has decoded and the resize to 512 x 0 has failed
C18_FailingCase ==
  /\ calc.pc = "normalized"
  /\ calc.decodable
  /\ calc.width = 1000
  /\ calc.height = 1
  /\ ~calc.result.ok
  /\ calc.result.error = "resize_error"

\* C19: for every width and height >= 1 the larger side of an animation
\* becomes 512 and the other side floor(other * 512 / larger), rounded down
\* to an even number; both sides are even and at most 512; 1000 x 500 gives
\* 512 x 256.
C19_VideoTargetSize ==
  calc.pc = "resized"
    => LET w == calc.width
           h == calc.height
           other == (IF w > h THEN h * 512 ELSE w * 512) \div Max(w, h)
           even == other - (other % 2)
       IN /\ calc.target = IF w > h THEN <<512, even>> ELSE <<even, 512>>
          /\ calc.target[1] % 2 = 0 /\ calc.target[1] <= 512
          /\ calc.target[2] % 2 = 0 /\ calc.target[2] <= 512
          /\ (w = 1000 /\ h = 500) => calc.target = <<512, 256>>

\* a clip of 98 x 49 is resized to 512 x 254
C19_FailingCase ==
  /\ calc.pc = "resized"
  /\ calc.width = 98
  /\ calc.height = 49
  /\ calc.target = <<512, 254>>

\* C20: a clip is returned by process_video_for_sticker, and passed on to
\* the pack API, only when it is at most 256 KB (262144 bytes) long; when it
\* is longer the call fails with an error that carries the measured size,
\* and the handler ends without any create or append call.
C20_SizeCeiling ==
  [][(event'.kind = "fetch_done" /\ event'.size > 0)
       => IF event'.size <= 262144
          THEN /\ task'.pc = "create"
               /\ Len(out'.calls) = 1
               /\ out'.calls[1].sticker.format = "video"
          ELSE /\ out'.reply = "error"
               /\ out'.err.text = "too_large"
               /\ 2 * (out'.err.kb * 1024 - event'.size * 100) <= 1024
               /\ 2 * (event'.size * 100 - out'.err.kb * 1024) <= 1024
               /\ out'.calls = <<>>
               /\ task' = IdleTask]_vars

\* a clip one byte above the limit has been refused and the handler has
\* ended
C20_Witness ==
  /\ event.kind = "fetch_done"
  /\ event.size = 262145
  /\ out.reply = "error"
  /\ out.err.text = "too_large"
  /\ out.calls = <<>>
  /\ task = IdleTask

\* the speed-up step of process_video_for_sticker has been passed by a clip
\* that was loaded
SpeedUpPassed ==
  /\ calc.pc \in {"timed", "resized", "encoded", "finally", "done"}
  /\ calc.clip # "none"

Min(a, b) == IF a <= b THEN a ELSE b

\* C21: the clip is sped up if and only if the declared duration is greater
\* than 3 seconds (a missing duration counts as 0), and then by the factor
\* duration / 3; a clip that is not sped up keeps its length; a clip whose
\* length is the declared duration comes out with the length
\* min(duration, 3).
C21_SpeedUpAboveThree ==
  SpeedUpPassed =>
    /\ calc.speed # Nothing <=> \E d \in calc.entry_duration : d > 3
    /\ \A factor \in calc.speed :
         \E d \in calc.entry_duration : factor = <<d, 3>>
    /\ calc.speed = Nothing => calc.clip_duration = <<calc.length, 1>>
    /\ calc.entry_duration = Some(calc.length)
         => calc.clip_duration[1] = Min(calc.length, 3) * calc.clip_duration[2]

\* a clip of 5 seconds that is declared as such has been sped up by 5/3 to
\* 3 seconds and encoded
C21_Witness ==
  /\ calc.pc = "done"
  /\ calc.result = "ok"
  /\ calc.entry_duration = Some(5)
  /\ calc.length = 5
  /\ calc.speed = Some(<<5, 3>>)
  /\ calc.clip_duration = <<15, 5>>

\* C22: for every input, also one that is not square, the clip that
\* process_video_for_sticker encodes has a frame of 512 x 512: the scaled
\* frame centred on a square canvas.
C22_PaddedToSquare ==
  (calc.pc \in {"encoded", "finally", "done"} /\ calc.webm_size > 0)
    => calc.webm_frame = <<512, 512>>

\* a clip of 1000 x 500 has been encoded and returned with a frame of
\* 512 x 256
C22_FailingCase ==
  /\ calc.pc = "done"
  /\ calc.result = "ok"
  /\ calc.width = 1000
  /\ calc.height = 500
  /\ calc.webm_frame = <<512, 256>>

\* the selection handler is suspended
InFlight == task.pc \in {"fetch", "create", "append"}

\* an update of the given kind, sent in an allowed chat by the user whose
\* selection is in flight, has arrived meanwhile and waits
WaitsFromPresser(kind) ==
  \E i \in 1..Len(update_queue) :
    /\ update_queue[i].kind = kind
    /\ update_queue[i].from_user = task.user_id
    /\ update_queue[i].chat_id \in ALLOWED_CHAT_IDS

\* the step ends the selection handler: the work it had dispatched completes
WorkCompletes ==
  /\ InFlight
  /\ task' = IdleTask

\* C23: when a user has cancelled while the fetch, the transcoding or the
\* pack API call of the user's own selection was in flight, the completion
\* of that work is discarded silently: no success or failure message is
\* shown, no error is reported, and no entry is created or changed.
C23_CancelledResultDiscarded ==
  [][(WaitsFromPresser("cancel") /\ WorkCompletes)
       => /\ out'.reply = "none"
          /\ out'.err = NoError
          /\ \A u \in DOMAIN pending_stickers' :
               /\ u \in DOMAIN pending_stickers
               /\ pending_stickers'[u] = pending_stickers[u]]_vars

\* the pack API call has succeeded and success is shown while the /cancel of
\* the same user still waits
C23_FailingCase ==
  /\ event.kind = "create_done"
  /\ event.result = "ok"
  /\ out.reply = "success"
  /\ update_queue # <<>>
  /\ Head(update_queue).kind = "cancel"
  /\ Head(update_queue).from_user = event.from_user

\* the step issues the given pack API call
Called(api) == \E i \in 1..Len(out'.calls) : out'.calls[i].api = api

\* C24: the create call is the first pack API call of a selection, issued
\* when the media has been fetched and processed; the append call is issued
\* if and only if the create call has failed because the sticker set
\* already exists: never after a create failure of another kind, and never
\* after a create call that succeeded.
C24_AppendOnlyWhenExists ==
  [][/\ Called("create") => event'.kind = "fetch_done"
     /\ Called("append")
          => event'.kind = "create_done" /\ event'.result = "exists"
     /\ (event'.kind = "create_done" /\ event'.result = "exists")
          => Called("append")]_vars

\* the create call has failed with another error of the pack API and the
\* append call is issued
C24_FailingCase ==
  /\ event.kind = "create_done"
  /\ event.result = "telegram_error"
  /\ task.pc = "append"
  /\ out.calls # <<>>
  /\ out.calls[1].api = "append"

\* C25: within one selection the steps come in the order fetch, processing,
\* pack API call (create, then append), report: the fetch is started by the
\* button press and by nothing else; create is called only when both the
\* fetch and the processing have succeeded, append only after create, and
\* success is reported only after a call that succeeded; a failed fetch or
\* a failed processing ends the selection without any call.  The item sent
\* is the media of the entry, with format "video" exactly when the entry
\* holds an animation and "static" otherwise.
C25_GatewayStepOrder ==
  [][/\ (event'.kind = "selection" /\ task'.pc = "fetch")
          => /\ out'.fetch # Nothing
             /\ out'.calls = <<>>
             /\ out'.reply = "none"
     /\ out'.fetch # Nothing => event'.kind = "selection"
     /\ Called("create")
          => /\ task.pc = "fetch"
             /\ event'.kind = "fetch_done"
             /\ event'.result = "ok"
     /\ Called("append") => task.pc = "create"
     /\ (event'.kind = "fetch_done" /\ event'.result # "ok")
          => out'.calls = <<>> /\ task' = IdleTask
     /\ out'.reply = "success"
          => task.pc \in {"create", "append"} /\ event'.result = "ok"
     /\ \A i \in 1..Len(out'.calls) :
          LET item == out'.calls[i].sticker
              entry == The(task.pending_data)
          IN /\ item.media = entry.file_id
             /\ item.format = "video" <=> entry.media_type = "video"
             /\ item.format = "static" <=> entry.media_type = "static"
             /\ entry.media_type = "video" <=> entry.file_id = Some("f2")]_vars

\* the animation of an entry has been fetched and processed, and the create
\* call sends it as a video sticker
C25_Witness ==
  /\ event.kind = "fetch_done"
  /\ event.result = "ok"
  /\ task.pc = "create"
  /\ out.calls # <<>>
  /\ out.calls[1].api = "create"
  /\ out.calls[1].sticker.format = "video"
  /\ out.calls[1].sticker.media = Some("f2")

\* C26: on every exit path of process_video_for_sticker (normal return,
\* decode failure, encode failure, a clip that is too large, a failure while
\* the clip is closed) the temporary input file and the temporary output
\* file no longer exist and the clip is closed.
C26_ResourcesReleased ==
  calc.pc = "done"
    => /\ ~calc.temp_input
       /\ ~calc.temp_output
       /\ calc.clip # "open"

\* clip.close() has raised in the finally block: both temporary files are
\* still there and the clip is open
C26_FailingCase ==
  /\ calc.pc = "done"
  /\ calc.result = "close_error"
  /\ calc.temp_input
  /\ calc.temp_output
  /\ calc.clip = "open"

\* an update of another user than the one whose selection is in flight is
\* the next to be handled
OtherUserWaits ==
  /\ InFlight
  /\ update_queue # <<>>
  /\ Head(update_queue).from_user # Nothing
  /\ Head(update_queue).from_user # task.user_id

\* a handler is called with the update that has waited longest
HandleUpdate ==
  \/ StartCommand
  \/ StickerCommand
  \/ DirectImage
  \/ DirectAnimation
  \/ CancelCommand
  \/ TextMessage
  \/ SelectionEvent

\* C27: while the selection of one user is inside its fetch, its
\* transcoding or its pack API call, an update of another user can be
\* handled to its end before that work finishes: the other user is not
\* made to wait for it.
C27_OtherUserNotSerialized ==
  OtherUserWaits => ENABLED HandleUpdate

\* the selection of user 1 is still awaiting the pack API while the /cancel
\* of user 2 has arrived and waits; user 2 has an entry to cancel
C27_FailingCase ==
  /\ task.pc = "create"
  /\ task.user_id = Some(1)
  /\ update_queue # <<>>
  /\ Head(update_queue).kind = "cancel"
  /\ Head(update_queue).from_user = Some(2)
  /\ 2 \in DOMAIN pending_stickers
  /\ ~ENABLED HandleUpdate

\* the selection handler of a user has just ended and the media that the
\* same user has submitted meanwhile (/sticker in reply to a photo, in an
\* allowed chat) is the next update to be handled
SubmittedInFlight ==
  /\ Idle
  /\ event.kind \in {"fetch_done", "create_done", "append_done"}
  /\ update_queue # <<>>
  /\ Head(update_queue).kind = "sticker_command"
  /\ Head(update_queue).from_user = event.from_user
  /\ Head(update_queue).chat_id \in ALLOWED_CHAT_IDS

C29_ConfirmedEmojiOnly ==
  [][\A i \in 1..Len(out'.calls) :
       LET item == out'.calls[i].sticker
           entry == The(task.pending_data)
       IN /\ item.media = entry.file_id
          /\ entry.emoji # Nothing
          /\ item.emoji = The(entry.emoji)
          /\ Len(item.emoji) = 1
          /\ item.emoji[1] \in EmojiChars
          /\ item.emoji # DEFAULT_EMOJI]_vars

\* the create call sends the photo f1 with the fallback emoji: the user has
\* pressed a button while the entry was in AwaitingEmoji
C29_FailingCase ==
  /\ event.kind = "fetch_done"
  /\ task.pc = "create"
  /\ out.calls # <<>>
  /\ out.calls[1].sticker.media = Some("f1")
  /\ out.calls[1].sticker.emoji = DEFAULT_EMOJI
  /\ The(task.pending_data).waiting_for_emoji

\* C30: in every reachable state an entry is in AwaitingCollection
\* (waiting_for_emoji is false) if and only if it has an emoji stored, and
\* it has a duration if and only if its media is an animation (media_type
\* "video").
C30_EntryWellFormed ==
  \A u \in DOMAIN pending_stickers :
    LET entry == pending_stickers[u]
    IN /\ ~entry.waiting_for_emoji <=> entry.emoji # Nothing
       /\ entry.duration # Nothing <=> entry.media_type = "video"
       /\ entry.media_type \in {"static", "video"}

\* user 1 has an animation with its duration and a confirmed emoji, in
\* AwaitingCollection, while user 2 has a photo without duration and without
\* emoji, in AwaitingEmoji
C30_Witness ==
  /\ DOMAIN pending_stickers = {1, 2}
  /\ pending_stickers[1].media_type = "video"
  /\ pending_stickers[1].duration = Some(5)
  /\ pending_stickers[1].emoji # Nothing
  /\ ~pending_stickers[1].waiting_for_emoji
  /\ pending_stickers[2].media_type = "static"
  /\ pending_stickers[2].duration = Nothing
  /\ pending_stickers[2].emoji = Nothing
  /\ pending_stickers[2].waiting_for_emoji

C32_TargetUsable ==
  (calc.pc = "resized" /\ calc.width >= 1 /\ calc.height >= 1)
    => /\ calc.target[1] > 0 /\ calc.target[1] >= 2
       /\ calc.target[2] > 0 /\ calc.target[2] >= 2

\* a clip of 1000 x 1 is resized to 512 x 0
C32_FailingCase ==
  /\ calc.pc = "resized"
  /\ calc.width = 1000
  /\ calc.height = 1
  /\ calc.target = <<512, 0>>

====
